---- MODULE Spec2Model ----
(***************************************************************************)
(* PII-safe round trip of the resume optimizer: PIISanitizer, ResumeMerger *)
(* and the flows that drive them.                                          *)
(*                                                                         *)
(* Python dicts and lists are mutable objects reached through references,  *)
(* so records live in a heap: heap[a] is the object at address a, a dict   *)
(* (function from string keys to values) or a list (sequence of values).   *)
(* A value is a string Str(s), an integer Num(n) or a reference Ref(a).    *)
(* A variable that holds a record holds the address of its top-level dict, *)
(* 0 for None.  Suggestions are flat dicts and live in a heap of their     *)
(* own, sugs; the two lists of the agent hold addresses into it.           *)
(***************************************************************************)
EXTENDS Integers, Sequences, FiniteSets, TLC

VARIABLES heap, original, sanitized, edited, merged, rescored, error, pc, loaded,
          flow, liveEdits, sugs, all_suggestions, selected_suggestions, call, oracle,
          session

recordVars == <<heap, original, sanitized, edited, merged, rescored, error, loaded>>
ledgerVars == <<sugs, all_suggestions, selected_suggestions, call>>
vars == <<recordVars, ledgerVars, pc, flow, liveEdits, oracle, session>>

\* ---------------------------------------------------------------- bounds
MaxExp == 2
MaxEdu == 1
\* cap on the length of the selected list and on the wizard's live edits
MaxSelected == 2
MaxLiveEdits == 2
\* longest experience and education list the sanitizer is applied to
MaxEntries == 2
\* cap on the suggestions one agent has stored over its analyses
MaxStored == 4

\* ------------------------------------------------------------ literals
REDACTED == "[REDACTED]"
LOCATION == "[LOCATION]"

\* ---------------------------------------------------------------- heap
Str(s) == [t |-> "str", r |-> 0, s |-> s, n |-> 0]
Num(n) == [t |-> "int", r |-> 0, s |-> "", n |-> n]
Ref(a) == [t |-> "ref", r |-> a, s |-> "", n |-> 0]

New(h, obj) == [h |-> Append(h, obj), a |-> Len(h) + 1]

Has(h, a, k) == k \in DOMAIN h[a]
Put(h, a, k, v) == [h EXCEPT ![a] = (k :> v) @@ h[a]]
Del(h, a, k) == [h EXCEPT ![a] = [x \in (DOMAIN h[a]) \ {k} |-> h[a][x]]]
ListAppend(h, a, v) == [h EXCEPT ![a] = Append(h[a], v)]
ListDropLast(h, a) == [h EXCEPT ![a] = SubSeq(h[a], 1, Len(h[a]) - 1)]

Refs(o) == {o[k].r : k \in DOMAIN o} \ {0}

\* seen, and what is reachable from the objects of the set frontier
RECURSIVE ReachFrom(_, _, _)
ReachFrom(h, seen, frontier) ==
  IF frontier = {} THEN seen
  ELSE LET all == seen \cup frontier
       IN ReachFrom(h, all, (UNION {Refs(h[a]) : a \in frontier}) \ all)

\* the objects reachable from the record at address a
Reach(h, a) == IF a = 0 THEN {} ELSE ReachFrom(h, {}, {a})

\* fresh addresses n + 1, n + 2, ... for the objects of S: the objects in
\* the order they are copied (src) and the address each is copied to (to)
RECURSIVE Number(_, _, _)
Number(S, n, acc) ==
  IF S = {} THEN acc
  ELSE LET x == CHOOSE y \in S : TRUE
       IN Number(S \ {x}, n + 1, [src |-> Append(acc.src, x), to |-> (x :> n + 1) @@ acc.to])

\* copy.deepcopy of the object at address a: every reachable object is
\* copied once to a fresh address (the memo keeps sharing inside the copy)
deepcopy(h, a) ==
  LET c == Number(Reach(h, a), Len(h), [src |-> <<>>, to |-> <<>>])
      copyObj(o) == [k \in DOMAIN o |-> IF o[k].r = 0 THEN o[k] ELSE Ref(c.to[o[k].r])]
  IN [h |-> h \o [i \in 1..Len(c.src) |-> copyObj(h[c.src[i]])],
      a |-> c.to[a]]

\* copy.deepcopy of a value: a string is immutable and is returned as is
deepcopyValue(h, v) ==
  IF v.r = 0 THEN [h |-> h, v |-> v]
  ELSE LET c == deepcopy(h, v.r) IN [h |-> c.h, v |-> Ref(c.a)]

\* the value (nested functions and strings) a heap value stands for
RECURSIVE Val(_, _)
Val(h, v) ==
  CASE v.t = "str" -> v.s
    [] v.t = "int" -> v.n
    [] OTHER -> [k \in DOMAIN h[v.r] |-> Val(h, h[v.r][k])]

RecVal(h, a) == Val(h, Ref(a))

\* ------------------------------------------------- records that are loaded
CompanyNames == <<"Acme Corp", "Beta LLC", "Gamma Inc", "Delta AG">>
Titles == <<"Engineer", "Analyst", "Intern", "Clerk">>
Institutions == <<"MIT", "ETH", "TUM">>
Degrees == <<"BSc", "MSc", "PhD">>

\* shapes of personal_info: the master JSON nests the contact block,
\* parse_pdf_resume returns a flat block
PIShapes == {"absent", "nested", "flat"}
\* the top-level shapes the behaviours start from: every shape of
\* personal_info without '_metadata', and a previously tailored record
TopShapes == [pi : PIShapes, meta : {FALSE}] \cup {[pi |-> "nested", meta |-> TRUE]}
\* shapes of an experience entry; "redloc" is an entry parsed from text in
\* which sanitize_text replaced the candidate's location by the placeholder
ExpTemplates == {"full", "noloc", "nocompany", "redloc"}
EduTemplates == {"full", "noinst"}

SeqsUpTo(S, n) == UNION {[1..k -> S] : k \in 0..n}

PersonalInfoNested(h) ==
  LET c == New(h, [email |-> Str("ann@x.org"), phone |-> Str("555-0100"),
                   location |-> Str("Berlin"), linkedin |-> Str("in/ann")])
  IN New(c.h, [name |-> Str("Ann Lee"), contact |-> Ref(c.a)])

PersonalInfoFlat(h) ==
  New(h, [name |-> Str("Ann Lee"), title |-> Str("Engineer"),
          email |-> Str("ann@x.org"), phone |-> Str("555-0100"),
          location |-> Str("Berlin"), linkedin |-> Str("in/ann")])

ExpEntry(t, i, ach) ==
  LET base == [title |-> Str(Titles[i]), duration |-> Str("2020-2022"), achievements |-> ach]
      co == IF t = "nocompany" THEN base ELSE ("company" :> Str(CompanyNames[i])) @@ base
  IN CASE t \in {"full", "nocompany"} -> ("location" :> Str("Berlin")) @@ co
       [] t = "redloc" -> ("location" :> Str(REDACTED)) @@ co
       [] OTHER -> co

RECURSIVE AllocExperience(_, _, _)
AllocExperience(h, tpls, refs) ==
  IF Len(refs) = Len(tpls) THEN New(h, refs)
  ELSE LET i == Len(refs) + 1
           ach == New(h, [category |-> Str("Delivery"), description |-> Str("Shipped v1")])
           al == New(ach.h, <<Ref(ach.a)>>)
           e == New(al.h, ExpEntry(tpls[i], i, Ref(al.a)))
       IN AllocExperience(e.h, tpls, Append(refs, Ref(e.a)))

EduEntry(t, i) ==
  LET base == [degree |-> Str(Degrees[i]), year |-> Str("2019")]
  IN IF t = "noinst" THEN base ELSE ("institution" :> Str(Institutions[i])) @@ base

RECURSIVE AllocEducation(_, _, _)
AllocEducation(h, tpls, refs) ==
  IF Len(refs) = Len(tpls) THEN New(h, refs)
  ELSE LET i == Len(refs) + 1
           e == New(h, EduEntry(tpls[i], i))
       IN AllocEducation(e.h, tpls, Append(refs, Ref(e.a)))

\* a record as json.load or parse_pdf_resume returns it
LoadRecord(pi, hasExp, exps, hasEdu, edus, hasMeta) ==
  LET sl == New(<<>>, <<Str("Jira"), Str("SQL")>>)
      sk == New(sl.h, [tools |-> Ref(sl.a)])
      ce == New(sk.h, [name |-> Str("PMP"), date |-> Str("2021")])
      cl == New(ce.h, <<Ref(ce.a)>>)
      top0 == [profile |-> Str("Builds things"), skills |-> Ref(sk.a),
               certifications |-> Ref(cl.a)]
      p == IF pi = "nested" THEN PersonalInfoNested(cl.h) ELSE PersonalInfoFlat(cl.h)
      h1 == IF pi = "absent" THEN cl.h ELSE p.h
      top1 == IF pi = "absent" THEN top0 ELSE ("personal_info" :> Ref(p.a)) @@ top0
      x == AllocExperience(h1, exps, <<>>)
      h2 == IF hasExp THEN x.h ELSE h1
      top2 == IF hasExp THEN ("experience" :> Ref(x.a)) @@ top1 ELSE top1
      d == AllocEducation(h2, edus, <<>>)
      h3 == IF hasEdu THEN d.h ELSE h2
      top3 == IF hasEdu THEN ("education" :> Ref(d.a)) @@ top2 ELSE top2
      md == New(h3, [source |-> Str("resume_master.json"), tailored_for |-> Str("old-job")])
      h4 == IF hasMeta THEN md.h ELSE h3
      top4 == IF hasMeta THEN ("_metadata" :> Ref(md.a)) @@ top3 ELSE top3
  IN New(h4, top4)

\* ------------------------------------------------------------ sanitizer
\* chr(65 + i) for the indexes the model reaches
chr65 == <<"A", "B", "C", "D", "E", "F">>

\* mutant: one pseudonym for every index
CompanyPseudonym_Constant(i) == "Company_A"

CompanyPseudonym(i) == "Company_" \o chr65[i + 1]
UniversityPseudonym(i) == "University_" \o chr65[i + 1]

\* mutant: a location that already holds the generic placeholder is
\* overwritten with the redaction placeholder
RECURSIVE SanitizeExperience_Toggle(_, _, _)
SanitizeExperience_Toggle(h, list, i) ==
  IF i >= Len(h[list]) THEN h
  ELSE LET exp == h[list][i + 1].r
           h1 == Put(h, exp, "company", Str(CompanyPseudonym(i)))
           h2 == IF Has(h1, exp, "location")
                 THEN Put(h1, exp, "location",
                          IF h1[exp]["location"].s = LOCATION THEN Str(REDACTED) ELSE Str(LOCATION))
                 ELSE h1
       IN SanitizeExperience_Toggle(h2, list, i + 1)

\* for i, exp in enumerate(sanitized['experience']), i counted from 0
RECURSIVE SanitizeExperience(_, _, _)
SanitizeExperience(h, list, i) ==
  IF i >= Len(h[list]) THEN h
  ELSE LET exp == h[list][i + 1].r
           h1 == Put(h, exp, "company", Str(CompanyPseudonym(i)))
           h2 == IF Has(h1, exp, "location") THEN Put(h1, exp, "location", Str(LOCATION)) ELSE h1
       IN SanitizeExperience(h2, list, i + 1)

\* mutant: the degree is overwritten as well
RECURSIVE SanitizeEducation_Degree(_, _, _)
SanitizeEducation_Degree(h, list, i) ==
  IF i >= Len(h[list]) THEN h
  ELSE LET edu == h[list][i + 1].r
           h1 == Put(h, edu, "institution", Str(UniversityPseudonym(i)))
       IN SanitizeEducation_Degree(Put(h1, edu, "degree", Str(REDACTED)), list, i + 1)

\* for i, edu in enumerate(sanitized['education']), i counted from 0
RECURSIVE SanitizeEducation(_, _, _)
SanitizeEducation(h, list, i) ==
  IF i >= Len(h[list]) THEN h
  ELSE LET edu == h[list][i + 1].r
       IN SanitizeEducation(Put(h, edu, "institution", Str(UniversityPseudonym(i))), list, i + 1)

\* mutant: copy.copy, a new top-level dict over the same nested objects
SanitizeCopy_Shallow(h, a) == New(h, h[a])

\* sanitized = copy.deepcopy(resume_data)
SanitizeCopy(h, a) == deepcopy(h, a)

\* mutant: only the name of the block is overwritten
SanitizePersonalInfo_NameOnly(h, s) ==
  IF Has(h, s, "personal_info")
  THEN Put(h, h[s]["personal_info"].r, "name", Str(REDACTED))
  ELSE h

\* mutant: the redacted block is written whether or not the record has one
SanitizePersonalInfo_Always(h, s) ==
  LET c == New(h, [email |-> Str(REDACTED), phone |-> Str(REDACTED),
                   location |-> Str(REDACTED), linkedin |-> Str(REDACTED)])
      p == New(c.h, [name |-> Str(REDACTED), contact |-> Ref(c.a)])
  IN Put(p.h, s, "personal_info", Ref(p.a))

\* if 'personal_info' in sanitized: sanitized['personal_info'] = {...}
SanitizePersonalInfo(h, s) ==
  IF Has(h, s, "personal_info")
  THEN LET c == New(h, [email |-> Str(REDACTED), phone |-> Str(REDACTED),
                        location |-> Str(REDACTED), linkedin |-> Str(REDACTED)])
           p == New(c.h, [name |-> Str(REDACTED), contact |-> Ref(c.a)])
       IN Put(p.h, s, "personal_info", Ref(p.a))
  ELSE h

\* PIISanitizer.sanitize_resume: the heap after the call and the address of
\* the returned record
sanitize_resume(h, resume_data) ==
  LET c == SanitizeCopy(h, resume_data)
      s == c.a
      h1 == SanitizePersonalInfo(c.h, s)
      h2 == IF Has(h1, s, "experience")
            THEN SanitizeExperience(h1, h1[s]["experience"].r, 0) ELSE h1
      h3 == IF Has(h2, s, "education")
            THEN SanitizeEducation(h2, h2[s]["education"].r, 0) ELSE h2
  IN [h |-> h3, a |-> s]

\* ------------------------------------------------ the Oracle's edit step
\* what the Oracle does to the record it is given: content edits, entries
\* added or removed, keys added or removed (its response is untrusted)
EditOps == {"none", "content", "append_exp", "drop_exp", "append_edu", "drop_edu",
            "add_location", "drop_location", "redact_ids", "drop_personal_info",
            "drop_experience", "drop_education", "add_personal_info", "add_metadata"}

ExpList(h, a) == IF Has(h, a, "experience") THEN h[h[a]["experience"].r] ELSE <<>>
EduList(h, a) == IF Has(h, a, "education") THEN h[h[a]["education"].r] ELSE <<>>

\* the heap after f is applied to each object of the set objs
MapObjs(h, objs, f(_)) == [a \in DOMAIN h |-> IF a \in objs THEN f(h[a]) ELSE h[a]]

Entries(list) == {list[i].r : i \in DOMAIN list}

EditContent(h, e) ==
  LET h1 == Put(h, e, "profile", Str("Builds things with healthcare expertise"))
      h2 == ListAppend(h1, h1[h1[e]["skills"].r]["tools"].r, Str("Python"))
      exps == Entries(ExpList(h2, e))
      addAch(o) == Append(o, Str("Automated Y"))
      h3 == MapObjs(h2, {h2[x]["achievements"].r : x \in exps}, addAch)
      retitle(o) == ("title" :> Str("Senior " \o o["title"].s)) @@ o
      h4 == MapObjs(h3, exps, retitle)
      regrade(o) == ("degree" :> Str(o["degree"].s \o " (Hons)")) @@ o
      h5 == MapObjs(h4, Entries(EduList(h4, e)), regrade)
      c == New(h5, [name |-> Str("CSM"), date |-> Str("2024")])
  IN ListAppend(c.h, c.h[e]["certifications"].r, Ref(c.a))

EditAppendExp(h, e) ==
  LET n == Len(ExpList(h, e))
      al == New(h, <<>>)
      x == New(al.h, [title |-> Str("Consultant"), company |-> Str(CompanyPseudonym(n)),
                      location |-> Str(LOCATION), duration |-> Str("2023-2024"),
                      achievements |-> Ref(al.a)])
  IN ListAppend(x.h, x.h[e]["experience"].r, Ref(x.a))

EditAppendEdu(h, e) ==
  LET n == Len(EduList(h, e))
      x == New(h, [institution |-> Str(UniversityPseudonym(n)), degree |-> Str("MBA"),
                   year |-> Str("2024")])
  IN ListAppend(x.h, x.h[e]["education"].r, Ref(x.a))

EditRedactIds(h, e) ==
  LET rx(o) == LET o1 == ("company" :> Str(REDACTED)) @@ o
               IN IF "location" \in DOMAIN o THEN ("location" :> Str(REDACTED)) @@ o1 ELSE o1
      rd(o) == ("institution" :> Str(REDACTED)) @@ o
  IN MapObjs(MapObjs(h, Entries(ExpList(h, e)), rx), Entries(EduList(h, e)), rd)

EditAddPersonalInfo(h, e) ==
  LET p == New(h, [name |-> Str(REDACTED)]) IN Put(p.h, e, "personal_info", Ref(p.a))

EditAddMetadata(h, e) ==
  LET m == New(h, [note |-> Str("edited by model")]) IN Put(m.h, e, "_metadata", Ref(m.a))

EditEnabled(h, e, op) ==
  CASE op = "append_exp" -> Has(h, e, "experience")
    [] op = "drop_exp" -> Len(ExpList(h, e)) > 0
    [] op = "append_edu" -> Has(h, e, "education")
    [] op = "drop_edu" -> Len(EduList(h, e)) > 0
    [] op = "add_location" -> \E i \in DOMAIN ExpList(h, e) : ~Has(h, ExpList(h, e)[i].r, "location")
    [] op = "drop_location" -> \E i \in DOMAIN ExpList(h, e) : Has(h, ExpList(h, e)[i].r, "location")
    [] op = "redact_ids" -> Len(ExpList(h, e)) + Len(EduList(h, e)) > 0
    [] op = "drop_personal_info" -> Has(h, e, "personal_info")
    [] op = "drop_experience" -> Has(h, e, "experience")
    [] op = "drop_education" -> Has(h, e, "education")
    [] op = "add_personal_info" -> ~Has(h, e, "personal_info")
    [] op = "add_metadata" -> ~Has(h, e, "_metadata")
    [] OTHER -> TRUE

ApplyEdit(h, e, op) ==
  CASE op = "content" -> EditContent(h, e)
    [] op = "append_exp" -> EditAppendExp(h, e)
    [] op = "drop_exp" -> ListDropLast(h, h[e]["experience"].r)
    [] op = "append_edu" -> EditAppendEdu(h, e)
    [] op = "drop_edu" -> ListDropLast(h, h[e]["education"].r)
    [] op = "add_location" ->
         LET f(o) == IF "location" \in DOMAIN o THEN o ELSE ("location" :> Str("Remote")) @@ o
         IN MapObjs(h, Entries(ExpList(h, e)), f)
    [] op = "drop_location" ->
         LET f(o) == [k \in (DOMAIN o) \ {"location"} |-> o[k]]
         IN MapObjs(h, Entries(ExpList(h, e)), f)
    [] op = "redact_ids" -> EditRedactIds(h, e)
    [] op = "drop_personal_info" -> Del(h, e, "personal_info")
    [] op = "drop_experience" -> Del(h, e, "experience")
    [] op = "drop_education" -> Del(h, e, "education")
    [] op = "add_personal_info" -> EditAddPersonalInfo(h, e)
    [] op = "add_metadata" -> EditAddMetadata(h, e)
    [] OTHER -> h

\* json.loads of the Oracle's response: a fresh record, the current record
\* as the Oracle edited it
OracleResponse(h, current_resume, op) ==
  LET c == deepcopy(h, current_resume)
  IN [h |-> ApplyEdit(c.h, c.a, op), a |-> c.a]

\* --------------------------------------------------------------- merger
Min(a, b) == IF a <= b THEN a ELSE b

\* mutant: the merge works on the edited record itself
MergeStart_InPlace(h, original_resume, sanitized_updated) == [h |-> h, a |-> sanitized_updated]

\* mutant: the merge starts from the original instead of the edited record
MergeStart_FromOriginal(h, original_resume, sanitized_updated) == deepcopy(h, original_resume)

\* merged = copy.deepcopy(sanitized_updated)
MergeStart(h, original_resume, sanitized_updated) == deepcopy(h, sanitized_updated)

\* mutant: the identity block is not restored
RestorePersonalInfo_Skipped(h, original_resume, m) == h

\* if 'personal_info' in original_resume: merged['personal_info'] = deepcopy(...)
RestorePersonalInfo(h, original_resume, m) ==
  IF Has(h, original_resume, "personal_info")
  THEN LET c == deepcopyValue(h, h[original_resume]["personal_info"])
       IN Put(c.h, m, "personal_info", c.v)
  ELSE h

\* mutant: the loop body restores the company and forgets the location
RestoreExperienceEntry_NoLocation(h, orig_exp, updated_exp) ==
  IF ~Has(h, orig_exp, "company") THEN [h |-> h, err |-> "KeyError"]
  ELSE [h |-> Put(h, updated_exp, "company", h[orig_exp]["company"]), err |-> "none"]

\* the body of the experience loop; orig_exp['company'] raises KeyError
\* when the original entry has no company
RestoreExperienceEntry(h, orig_exp, updated_exp) ==
  IF ~Has(h, orig_exp, "company") THEN [h |-> h, err |-> "KeyError"]
  ELSE LET h1 == Put(h, updated_exp, "company", h[orig_exp]["company"])
       IN [h |-> IF Has(h1, orig_exp, "location")
                 THEN Put(h1, updated_exp, "location", h1[orig_exp]["location"])
                 ELSE h1,
           err |-> "none"]

\* for i in range(min(len(original_resume['experience']), len(merged['experience'])))
RECURSIVE ExperienceLoop(_, _, _, _)
ExperienceLoop(h, origList, mergedList, i) ==
  IF i >= Min(Len(h[origList]), Len(h[mergedList])) THEN [h |-> h, err |-> "none"]
  ELSE LET step == RestoreExperienceEntry(h, h[origList][i + 1].r, h[mergedList][i + 1].r)
       IN IF step.err # "none" THEN step
          ELSE ExperienceLoop(step.h, origList, mergedList, i + 1)

\* mutant: the experience list is restored wholesale from the original
RestoreExperience_Wholesale(h, original_resume, m) ==
  IF Has(h, original_resume, "experience") /\ Has(h, m, "experience")
  THEN LET c == deepcopyValue(h, h[original_resume]["experience"])
       IN [h |-> Put(c.h, m, "experience", c.v), err |-> "none"]
  ELSE [h |-> h, err |-> "none"]

RestoreExperience(h, original_resume, m) ==
  IF Has(h, original_resume, "experience") /\ Has(h, m, "experience")
  THEN ExperienceLoop(h, h[original_resume]["experience"].r, h[m]["experience"].r, 0)
  ELSE [h |-> h, err |-> "none"]

\* mutant: the loop body leaves the pseudonym in place
RestoreEducationEntry_Skipped(h, orig_edu, updated_edu) ==
  IF ~Has(h, orig_edu, "institution") THEN [h |-> h, err |-> "KeyError"]
  ELSE [h |-> h, err |-> "none"]

\* the body of the education loop; orig_edu['institution'] raises KeyError
\* when the original entry has no institution
RestoreEducationEntry(h, orig_edu, updated_edu) ==
  IF ~Has(h, orig_edu, "institution") THEN [h |-> h, err |-> "KeyError"]
  ELSE [h |-> Put(h, updated_edu, "institution", h[orig_edu]["institution"]), err |-> "none"]

RECURSIVE EducationLoop(_, _, _, _)
EducationLoop(h, origList, mergedList, i) ==
  IF i >= Min(Len(h[origList]), Len(h[mergedList])) THEN [h |-> h, err |-> "none"]
  ELSE LET step == RestoreEducationEntry(h, h[origList][i + 1].r, h[mergedList][i + 1].r)
       IN IF step.err # "none" THEN step
          ELSE EducationLoop(step.h, origList, mergedList, i + 1)

\* mutant: the education loop is never entered
RestoreEducation_NoLoop(h, original_resume, m) == [h |-> h, err |-> "none"]

RestoreEducation(h, original_resume, m) ==
  IF Has(h, original_resume, "education") /\ Has(h, m, "education")
  THEN EducationLoop(h, h[original_resume]["education"].r, h[m]["education"].r, 0)
  ELSE [h |-> h, err |-> "none"]

\* mutant: the bookkeeping key is never removed
DropMetadata_Never(h, original_resume, m) == h

\* if '_metadata' in merged and '_metadata' not in original_resume: del
DropMetadata(h, original_resume, m) ==
  IF Has(h, m, "_metadata") /\ ~Has(h, original_resume, "_metadata")
  THEN Del(h, m, "_metadata") ELSE h

\* ResumeMerger.merge: the heap after the call, the address of the returned
\* record (0 when the call raises) and the exception raised
merge(h, original_resume, sanitized_updated) ==
  LET c == MergeStart(h, original_resume, sanitized_updated)
      m == c.a
      h1 == RestorePersonalInfo(c.h, original_resume, m)
      x == RestoreExperience(h1, original_resume, m)
      d == IF x.err = "none" THEN RestoreEducation(x.h, original_resume, m) ELSE x
  IN IF d.err = "none"
     THEN [h |-> DropMetadata(d.h, original_resume, m), a |-> m, err |-> "none"]
     ELSE [h |-> d.h, a |-> 0, err |-> d.err]

\* --------------------------------------------------------------- ledger
\* sug.get(k, d)
GetOr(sug, k, d) == IF k \in DOMAIN sug THEN sug[k] ELSE d

\* one turn of the loop of _validate_suggestions, i counted from 0
ValidateOne(sug, i) ==
  LET base == [id |-> GetOr(sug, "id", i + 1),
               category |-> GetOr(sug, "category", "Other"),
               type |-> GetOr(sug, "type", "add_text"),
               description |-> GetOr(sug, "description", "No description"),
               action |-> GetOr(sug, "action", ""),
               reason |-> GetOr(sug, "reason", ""),
               section |-> GetOr(sug, "section", ""),
               value |-> GetOr(sug, "value", ""),
               priority |-> GetOr(sug, "priority", "medium"),
               selected |-> FALSE]
      a == IF "achievement_category" \in DOMAIN sug
           THEN ("achievement_category" :> sug["achievement_category"]) @@ base ELSE base
  IN IF "insert_after" \in DOMAIN sug THEN ("insert_after" :> sug["insert_after"]) @@ a ELSE a

\* mutant: a missing id becomes the 0-based position
validate_suggestions_ZeroBased(suggestions) ==
  [i \in 1..Len(suggestions) |-> ValidateOne(suggestions[i], i - 2)]

\* ResumeOptimizerAgent._validate_suggestions
validate_suggestions(suggestions) ==
  [i \in 1..Len(suggestions) |-> ValidateOne(suggestions[i], i - 1)]

\* x in selected_ids, selected_ids a list
InList(x, list) == \E k \in DOMAIN list : list[k] = x

\* mutant: the selected list receives a copy of the suggestion
RECURSIVE SelectFrom_Snapshot(_, _, _, _, _)
SelectFrom_Snapshot(sg, all, sel, selected_ids, i) ==
  IF i > Len(all) THEN [sugs |-> sg, selected |-> sel]
  ELSE IF InList(sg[all[i]]["id"], selected_ids)
       THEN LET marked == [sg EXCEPT ![all[i]] = [@ EXCEPT !["selected"] = TRUE]]
            IN SelectFrom_Snapshot(Append(marked, marked[all[i]]), all,
                                   Append(sel, Len(marked) + 1), selected_ids, i + 1)
       ELSE SelectFrom_Snapshot(sg, all, sel, selected_ids, i + 1)

\* ResumeOptimizerAgent.select_suggestions: the loop from position i on
RECURSIVE SelectFrom(_, _, _, _, _)
SelectFrom(sg, all, sel, selected_ids, i) ==
  IF i > Len(all) THEN [sugs |-> sg, selected |-> sel]
  ELSE IF InList(sg[all[i]]["id"], selected_ids)
       THEN SelectFrom([sg EXCEPT ![all[i]] = [@ EXCEPT !["selected"] = TRUE]],
                       all, Append(sel, all[i]), selected_ids, i + 1)
       ELSE SelectFrom(sg, all, sel, selected_ids, i + 1)

\* mutant: the matches are appended in the reverse of the generation order
select_suggestions_Reversed(sg, all, sel, selected_ids) ==
  LET r == SelectFrom(sg, all, <<>>, selected_ids, 1)
  IN [sugs |-> r.sugs,
      selected |-> sel \o [i \in 1..Len(r.selected) |-> r.selected[Len(r.selected) + 1 - i]]]

\* mutant: ids that match nothing select every suggestion
select_suggestions_DefaultAll(sg, all, sel, selected_ids) ==
  LET r == SelectFrom(sg, all, sel, selected_ids, 1)
  IN IF r.selected = sel
     THEN [sugs |-> [a \in DOMAIN sg |->
                       IF InList(a, all) THEN [sg[a] EXCEPT !["selected"] = TRUE] ELSE sg[a]],
           selected |-> sel \o all]
     ELSE r

select_suggestions(sg, all, sel, selected_ids) == SelectFrom(sg, all, sel, selected_ids, 1)

\* mutant: a modified suggestion goes back to unselected
modify_suggestion_Unselect(sg, all, suggestion_id, new_value) ==
  [a \in DOMAIN sg |->
     IF InList(a, all) /\ sg[a]["id"] = suggestion_id
     THEN ("value" :> new_value) @@ ("modified" :> TRUE) @@ ("selected" :> FALSE) @@ sg[a]
     ELSE sg[a]]

\* mutant: the value of every suggestion is replaced
modify_suggestion_All(sg, all, suggestion_id, new_value) ==
  [a \in DOMAIN sg |->
     IF InList(a, all)
     THEN ("value" :> new_value) @@ ("modified" :> TRUE) @@ sg[a]
     ELSE sg[a]]

\* ResumeOptimizerAgent.modify_suggestion
modify_suggestion(sg, all, suggestion_id, new_value) ==
  [a \in DOMAIN sg |->
     IF InList(a, all) /\ sg[a]["id"] = suggestion_id
     THEN ("value" :> new_value) @@ ("modified" :> TRUE) @@ sg[a]
     ELSE sg[a]]

\* ResumeOptimizerAgent.get_selected_suggestions
get_selected_suggestions(sg, sel) == [i \in DOMAIN sel |-> sg[sel[i]]]

\* one entry of the instructions of _format_suggestions_for_ai
Instruction(sug) ==
  CASE sug["type"] \in {"add_skill", "add_skill_to_existing"} ->
         [head |-> "ADD SKILL", value |-> sug["value"], section |-> sug["section"],
          action |-> sug["action"]]
    [] sug["type"] = "add_achievement" ->
         [head |-> "ADD ACHIEVEMENT",
          category |-> GetOr(sug, "achievement_category", "General"),
          value |-> sug["value"], section |-> sug["section"], action |-> sug["action"]]
    [] OTHER ->
         [head |-> "MODIFY TEXT", section |-> sug["section"], change |-> sug["description"],
          value |-> sug["value"], action |-> sug["action"]]

\* ResumeOptimizerAgent._format_suggestions_for_ai: an entry for each selected
\* suggestion whose type has a branch
format_suggestions_for_ai(sg, sel) ==
  LET Formatted(a) == sg[a]["type"] \in {"add_skill", "add_skill_to_existing",
                                          "add_achievement", "modify_text"}
      kept == SelectSeq(sel, Formatted)
  IN [i \in DOMAIN kept |-> Instruction(sg[kept[i]])]

\* st.session_state of the wizard: the ids ticked at step 2 and the texts of
\* step 3, by id
NoSession == [selected_ids |-> <<>>, edited_suggestions |-> <<>>]

\* what the last call of the Oracle was given: the record and, for the edit
\* applier, the instructions
NothingSent == [resume |-> 0, instructions |-> <<>>]

\* the batches of raw suggestions the flows are run with
RawBare == [value |-> "with healthcare expertise"]
FlowBatches == {<<RawBare>>}
FlowIds == {<<1>>, <<9>>}
FlowValues == {"with HIPAA expertise"}

\* the batches, id lists and ids the ledger is exercised with; the second
\* batch has an entry without id, which gets the id of its neighbour
RawSkill(n) == [id |-> n, type |-> "add_skill", category |-> "Skills",
                section |-> "skills.tools", value |-> "Kubernetes", priority |-> "high"]
RawAchievement == [type |-> "add_achievement", category |-> "Experience",
                   section |-> "experience[0].achievements", value |-> "Led the migration",
                   achievement_category |-> "Leadership", insert_after |-> "Shipped v1"]
LedgerBatches == {<<RawSkill(1), RawSkill(2), RawSkill(3)>>, <<RawSkill(2), RawBare>>,
                  <<RawBare, RawAchievement>>}
LedgerIds == {<<1>>, <<2>>, <<3, 1>>, <<9>>}
LedgerModifyIds == {1, 2, 9}

\* the batch the wizard's steps are run with, and what the Oracle does when
\* the preview is generated: it answers or the call raises
SessionBatches == {<<RawSkill(1), RawBare>>}
PreviewOutcomes == {"raises", "none", "content"}

Batches(f) == IF f \in {"ledger", "agent"} THEN LedgerBatches
              ELSE IF f = "session" THEN SessionBatches ELSE FlowBatches
IdLists(f) == IF f \in {"ledger", "agent"} THEN LedgerIds ELSE FlowIds
ModifyIds(f) == IF f \in {"ledger", "agent"} THEN LedgerModifyIds ELSE {1, 9}

\* the last call on the ledger: its arguments and the ledger it was made on
NoCall == [op |-> "none", ids |-> <<>>, id |-> 0, value |-> "", batch |-> <<>>,
           sugs |-> <<>>, all |-> <<>>, selected |-> <<>>]
\* the calls are recorded in the sessions that exercise the agent alone
Recorded(c) == IF flow \in {"ledger", "agent", "session"} THEN c ELSE NoCall

\* ------------------------------------------------------------- metadata
\* ResumeMerger.add_metadata; created_at is the clock's reading
add_metadata_InPlace(h, resume, company_name, match_score_before, changes_count, now) ==
  LET m == New(h, [source |-> Str("resume_master.json"),
                   tailored_for |-> Str(company_name),
                   created_at |-> Str(now),
                   match_score_before |-> Num(match_score_before),
                   changes_applied |-> Num(changes_count)])
  IN [h |-> Put(m.h, resume, "_metadata", Ref(m.a)), a |-> resume]

add_metadata(h, resume, company_name, match_score_before, changes_count, now) ==
  LET c == deepcopy(h, resume)
      m == New(c.h, [source |-> Str("resume_master.json"),
                     tailored_for |-> Str(company_name),
                     created_at |-> Str(now),
                     match_score_before |-> Num(match_score_before),
                     changes_applied |-> Num(changes_count)])
  IN [h |-> Put(m.h, c.a, "_metadata", Ref(m.a)), a |-> c.a]

Labels == {"google-swe", "custom-job"}
Scores == {62}
Clock == {"2026-01-01T10:00:00"}

\* ------------------------------------------------- the wizard's live edits
LiveOps == {"profile", "skills", "achievement", "delete_achievement", "add_achievement"}

FirstExp(h, a) == ExpList(h, a)[1].r
Achievements(h, exp) == h[exp]["achievements"].r

LiveEnabled(h, a, op) ==
  CASE op = "profile" -> Has(h, a, "profile") /\ h[a]["profile"].s # ""
    [] op = "skills" -> Has(h, a, "skills") /\ DOMAIN h[h[a]["skills"].r] # {}
    [] op = "add_achievement" -> Len(ExpList(h, a)) > 0
    [] OTHER -> Len(ExpList(h, a)) > 0 /\ Len(h[Achievements(h, FirstExp(h, a))]) > 0

\* one rerun of step 4 in which the user changed one widget or pressed one
\* button; the widgets left alone write back the value they were filled with
LiveEdit(h, a, op) ==
  CASE op = "profile" -> Put(h, a, "profile", Str("Edited profile"))
    [] op = "skills" ->
         LET l == New(h, <<Str("Go")>>) IN Put(l.h, l.h[a]["skills"].r, "tools", Ref(l.a))
    [] op = "achievement" ->
         LET list == Achievements(h, FirstExp(h, a))
             ach == h[list][1]
         IN IF ach.r # 0 THEN Put(h, ach.r, "description", Str("Edited achievement"))
            ELSE [h EXCEPT ![list] = [@ EXCEPT ![1] = Str("Edited achievement")]]
    [] op = "delete_achievement" ->
         LET list == Achievements(h, FirstExp(h, a)) IN [h EXCEPT ![list] = Tail(@)]
    [] OTHER ->
         LET n == New(h, [category |-> Str(""),
                          description |-> Str("New achievement - edit this text")])
         IN ListAppend(n.h, Achievements(n.h, FirstExp(n.h, a)), Ref(n.a))

\* ------------------------------------------------------------ behaviour
\* the record is loaded, nothing else has run
Loaded(rec) ==
  /\ heap = rec.h
  /\ original = rec.a
  /\ loaded = RecVal(rec.h, rec.a)
  /\ sanitized = 0
  /\ edited = 0
  /\ merged = 0
  /\ rescored = 0
  /\ error = "none"
  /\ pc = "loaded"
  /\ liveEdits = 0
  /\ sugs = <<>>
  /\ all_suggestions = <<>>
  /\ selected_suggestions = <<>>
  /\ call = NoCall
  /\ oracle = NothingSent
  /\ session = NoSession

\* sanitize and merge as functions: every loaded record, every edit of it
Init ==
  \E top \in TopShapes, hasExp \in BOOLEAN, hasEdu \in BOOLEAN :
    \E exps \in SeqsUpTo(ExpTemplates, MaxExp), edus \in SeqsUpTo(EduTemplates, MaxEdu) :
      /\ (~hasExp => exps = <<>>)
      /\ (~hasEdu => edus = <<>>)
      /\ Loaded(LoadRecord(top.pi, hasExp, exps, hasEdu, edus, top.meta))
      /\ flow = "function"

\* sanitized_resume = sanitizer.sanitize_resume(original_resume)
Sanitize ==
  /\ pc = "loaded"
  /\ LET s == sanitize_resume(heap, original)
     IN /\ heap' = s.h
        /\ sanitized' = s.a
  /\ pc' = "sanitized"
  /\ UNCHANGED <<session, original, edited, merged, rescored, error, loaded, flow, liveEdits, ledgerVars, oracle>>

\* generate_updated_resume with nothing selected: return self.current_resume
ReturnCurrent(from) ==
  /\ pc = from
  /\ edited' = sanitized
  /\ pc' = "edited"
  /\ UNCHANGED <<session, heap, original, sanitized, merged, rescored, error, loaded, flow, liveEdits,
                 ledgerVars, oracle>>

\* generate_updated_resume with a selection: the Oracle's answer
ReturnResponse(from) ==
  /\ pc = from
  /\ \E op \in EditOps :
       /\ EditEnabled(heap, sanitized, op)
       /\ LET o == OracleResponse(heap, sanitized, op)
          IN /\ heap' = o.h
             /\ edited' = o.a
  /\ oracle' = [resume |-> sanitized,
                instructions |-> format_suggestions_for_ai(sugs, selected_suggestions)]
  /\ pc' = "edited"
  /\ UNCHANGED <<session, original, sanitized, merged, rescored, error, loaded, flow, liveEdits,
                 ledgerVars>>

ApplyNothing == ReturnCurrent("sanitized")
ApplyEdits == ReturnResponse("sanitized")

\* merger.merge(original_resume, updated_sanitized)
Merge ==
  /\ pc = "edited"
  /\ LET r == merge(heap, original, edited)
     IN /\ heap' = r.h
        /\ merged' = r.a
        /\ error' = r.err
        /\ pc' = IF r.err = "none" THEN "merged" ELSE "failed"
  /\ UNCHANGED <<session, original, sanitized, edited, rescored, loaded, flow, liveEdits, ledgerVars, oracle>>

Next == Sanitize \/ ApplyNothing \/ ApplyEdits \/ Merge

Spec == Init /\ [][Next]_vars

\* ------------------------------------------------ sanitize as a function
\* every loaded record the sanitizer is applied to
InitSanitize ==
  \E pi \in PIShapes, hasExp \in BOOLEAN, hasEdu \in BOOLEAN, hasMeta \in BOOLEAN :
    \E exps \in SeqsUpTo(ExpTemplates, MaxEntries), edus \in SeqsUpTo(EduTemplates, MaxEntries) :
      /\ (~hasExp => exps = <<>>)
      /\ (~hasEdu => edus = <<>>)
      /\ Loaded(LoadRecord(pi, hasExp, exps, hasEdu, edus, hasMeta))
      /\ flow = "sanitize"

\* sanitize_resume applied to a record it returned
Resanitize ==
  /\ flow = "sanitize"
  /\ pc = "sanitized"
  /\ LET s == sanitize_resume(heap, sanitized)
     IN /\ heap' = s.h
        /\ rescored' = s.a
  /\ pc' = "resanitized"
  /\ UNCHANGED <<session, original, sanitized, edited, merged, error, loaded, flow, liveEdits, ledgerVars, oracle>>

NextSanitize == Sanitize \/ Resanitize

SpecSanitize == InitSanitize /\ [][NextSanitize]_vars

\* ---------------------------------------------------------- the two flows
FlowExps == [i \in 1..MaxExp |-> IF i % 2 = 1 THEN "full" ELSE "noloc"]
FlowEdus == [i \in 1..MaxEdu |-> "full"]

\* a run of the command-line flow or of the wizard
InitFlow ==
  \E pi \in {"nested", "flat"}, f \in {"cli", "wizard"} :
    /\ Loaded(LoadRecord(pi, TRUE, FlowExps, TRUE, FlowEdus, FALSE))
    /\ flow = f

\* agent.analyze_and_generate_suggestions: the batch is validated and stored
\* in place of the one before; the selected list is left as it is.  The flows
\* analyse once, an agent on its own may be asked again.
Analyze ==
  /\ pc = "sanitized" \/ (flow = "agent" /\ pc = "curating")
  /\ \E batch \in Batches(flow) :
       /\ Len(sugs) + Len(batch) <= MaxStored
       /\ sugs' = sugs \o validate_suggestions(batch)
       /\ all_suggestions' = [i \in 1..Len(batch) |-> Len(sugs) + i]
       /\ call' = Recorded([NoCall EXCEPT !.op = "analyze", !.batch = batch, !.sugs = sugs,
                                          !.all = all_suggestions,
                                          !.selected = selected_suggestions])
  /\ oracle' = [resume |-> sanitized, instructions |-> <<>>]
  /\ pc' = "curating"
  /\ UNCHANGED <<session, recordVars, selected_suggestions, flow, liveEdits>>

\* agent.select_suggestions(selected_ids)
SelectSuggestions ==
  /\ pc = "curating"
  /\ \E ids \in IdLists(flow) :
       LET r == select_suggestions(sugs, all_suggestions, selected_suggestions, ids)
       IN /\ Len(r.selected) <= MaxSelected
          /\ sugs' = r.sugs
          /\ selected_suggestions' = r.selected
          /\ call' = Recorded([NoCall EXCEPT !.op = "select", !.ids = ids, !.sugs = sugs,
                                             !.all = all_suggestions,
                                             !.selected = selected_suggestions])
  /\ UNCHANGED <<session, recordVars, all_suggestions, pc, flow, liveEdits, oracle>>

\* agent.modify_suggestion(suggestion_id, new_value)
ModifySuggestion ==
  /\ pc = "curating"
  /\ \E id \in ModifyIds(flow), v \in FlowValues :
       /\ sugs' = modify_suggestion(sugs, all_suggestions, id, v)
       /\ call' = Recorded([NoCall EXCEPT !.op = "modify", !.id = id, !.value = v,
                                          !.sugs = sugs, !.all = all_suggestions,
                                          !.selected = selected_suggestions])
  /\ UNCHANGED <<session, recordVars, all_suggestions, selected_suggestions, pc, flow, liveEdits, oracle>>

\* updated_sanitized = agent.generate_updated_resume()
GenerateUpdatedResume ==
  \/ selected_suggestions = <<>> /\ ReturnCurrent("curating")
  \/ selected_suggestions # <<>> /\ ReturnResponse("curating")

\* tailored_resume = merger.add_metadata(tailored_resume, ...)
AddMetadata ==
  /\ flow = "cli"
  /\ pc = "merged"
  /\ \E label \in Labels, score \in Scores, now \in Clock :
       LET r == add_metadata(heap, merged, label, score, Len(selected_suggestions), now)
       IN /\ heap' = r.h
          /\ merged' = r.a
  /\ pc' = "tagged"
  /\ UNCHANGED <<session, original, sanitized, edited, rescored, error, loaded, flow, liveEdits,
                 ledgerVars, oracle>>

\* a rerun of step 4 of the wizard that edits the preview record in place
LiveEditPreview ==
  /\ flow = "wizard"
  /\ pc = "merged"
  /\ liveEdits < MaxLiveEdits
  /\ \E op \in LiveOps :
       /\ LiveEnabled(heap, merged, op)
       /\ heap' = LiveEdit(heap, merged, op)
  /\ liveEdits' = liveEdits + 1
  /\ UNCHANGED <<session, original, sanitized, edited, merged, rescored, error, loaded, pc, flow,
                 ledgerVars, oracle>>

\* mutant: the tailored record itself is scored
RescoreInput_Raw(h, tailored_resume) == [h |-> h, a |-> tailored_resume]

\* new_sanitized = sanitizer.sanitize_resume(tailored_resume), the record
\* matcher.calculate_match is given
RescoreInput(h, tailored_resume) == sanitize_resume(h, tailored_resume)

\* the tailored record is sanitized and scored again
Rescore ==
  /\ \/ flow = "cli" /\ pc = "tagged"
     \/ flow = "wizard" /\ pc = "merged"
  /\ LET s == RescoreInput(heap, merged)
     IN /\ heap' = s.h
        /\ rescored' = s.a
        /\ oracle' = [resume |-> s.a, instructions |-> <<>>]
  /\ pc' = "done"
  /\ UNCHANGED <<session, original, sanitized, edited, merged, error, loaded, flow, liveEdits,
                 ledgerVars>>

NextFlow ==
  \/ Sanitize
  \/ Analyze
  \/ SelectSuggestions
  \/ ModifySuggestion
  \/ GenerateUpdatedResume
  \/ Merge
  \/ AddMetadata
  \/ LiveEditPreview
  \/ Rescore

SpecFlow == InitFlow /\ [][NextFlow]_vars

\* ----------------------------------------------------- the ledger alone
\* a session in which the suggestions are curated
InitLedger ==
  /\ Loaded(LoadRecord("nested", TRUE, FlowExps, TRUE, FlowEdus, FALSE))
  /\ flow = "ledger"

NextLedger == Sanitize \/ Analyze \/ SelectSuggestions \/ ModifySuggestion

SpecLedger == InitLedger /\ [][NextLedger]_vars

\* ----------------------------------------------- one agent, many analyses
\* an agent that is asked for suggestions more than once
InitAgent ==
  /\ Loaded(LoadRecord("nested", TRUE, FlowExps, TRUE, FlowEdus, FALSE))
  /\ flow = "agent"

NextAgent == Sanitize \/ Analyze \/ SelectSuggestions \/ ModifySuggestion

SpecAgent == InitAgent /\ [][NextAgent]_vars

\* ------------------------------------------------- the wizard, steps 2 to 4
\* st.session_state.suggestions is the agent's all_suggestions
ShownIds == {sugs[all_suggestions[i]]["id"] : i \in DOMAIN all_suggestions}

\* [s['id'] for s in ...]
IdsOfShown(sg, list) == [i \in DOMAIN list |-> sg[list[i]]["id"]]

\* next(s for s in selected_suggestions if s['id'] == sug_id)
Shown(id) ==
  LET i == CHOOSE k \in DOMAIN all_suggestions :
             /\ sugs[all_suggestions[k]]["id"] = id
             /\ \A j \in 1..(k - 1) : sugs[all_suggestions[j]]["id"] # id
  IN sugs[all_suggestions[i]]

\* list.remove(x)
Remove(list, x) == LET Other(y) == y # x IN SelectSeq(list, Other)

sessionFrame == <<recordVars, ledgerVars, flow, liveEdits, oracle>>

\* step 2, a checkbox: the id is appended to selected_ids or removed from it
TickSuggestion ==
  /\ flow = "session" /\ pc = "curating"
  /\ \E id \in ShownIds :
       session' = [session EXCEPT !.selected_ids =
                     IF InList(id, @) THEN Remove(@, id) ELSE Append(@, id)]
  /\ UNCHANGED <<sessionFrame, pc>>

\* step 2, the buttons All, High and Clear
SelectAll ==
  /\ flow = "session" /\ pc = "curating"
  /\ session' = [session EXCEPT !.selected_ids = IdsOfShown(sugs, all_suggestions)]
  /\ UNCHANGED <<sessionFrame, pc>>

SelectHigh ==
  /\ flow = "session" /\ pc = "curating"
  /\ session' = [session EXCEPT !.selected_ids =
                   LET High(a) == sugs[a]["priority"] = "high"
                   IN IdsOfShown(sugs, SelectSeq(all_suggestions, High))]
  /\ UNCHANGED <<sessionFrame, pc>>

ClearSelection ==
  /\ flow = "session" /\ pc = "curating"
  /\ session' = [session EXCEPT !.selected_ids = <<>>]
  /\ UNCHANGED <<sessionFrame, pc>>

\* step 2, Continue, and the first run of step 3: every selected suggestion
\* gets its text, the one kept from an earlier visit or its value
Continue ==
  /\ flow = "session" /\ pc = "curating"
  /\ session.selected_ids # <<>>
  /\ session' = [session EXCEPT !.edited_suggestions =
                   LET old == @
                       ids == {session.selected_ids[i] : i \in DOMAIN session.selected_ids}
                   IN [id \in DOMAIN old \cup ids |->
                         IF id \in DOMAIN old THEN old[id] ELSE Shown(id)["value"]]]
  /\ pc' = "editing"
  /\ UNCHANGED sessionFrame

\* step 3, a text area: the text of one selected suggestion is changed
EditText ==
  /\ flow = "session" /\ pc = "editing"
  /\ \E i \in DOMAIN session.selected_ids, v \in FlowValues :
       session' = [session EXCEPT !.edited_suggestions[session.selected_ids[i]] = v]
  /\ UNCHANGED <<sessionFrame, pc>>

\* step 3, Back
BackToStepTwo ==
  /\ flow = "session" /\ pc = "editing"
  /\ pc' = "curating"
  /\ UNCHANGED <<sessionFrame, session>>

\* the loop over edited_suggestions.items() of step 4
RECURSIVE ModifyEdited(_, _, _, _)
ModifyEdited(sg, all, edits, ids) ==
  IF ids = {} THEN sg
  ELSE LET id == CHOOSE x \in ids : \A y \in ids : x <= y
       IN ModifyEdited(modify_suggestion(sg, all, id, edits[id]), all, edits, ids \ {id})

\* step 4 while preview_resume is None: the texts are written to the
\* suggestions, the ids are selected, the Oracle is asked and its answer is
\* merged; when a call raises there is no preview
GeneratePreview ==
  LET sg == ModifyEdited(sugs, all_suggestions, session.edited_suggestions,
                         DOMAIN session.edited_suggestions)
      r == select_suggestions(sg, all_suggestions, selected_suggestions,
                              session.selected_ids)
  IN /\ Len(r.selected) <= MaxSelected
     /\ sugs' = r.sugs
     /\ selected_suggestions' = r.selected
     /\ call' = Recorded([NoCall EXCEPT !.op = "preview", !.ids = session.selected_ids,
                                        !.sugs = sugs, !.all = all_suggestions,
                                        !.selected = selected_suggestions])
     /\ oracle' = [resume |-> sanitized,
                   instructions |-> format_suggestions_for_ai(r.sugs, r.selected)]
     /\ \E outcome \in PreviewOutcomes :
          IF outcome = "raises"
          THEN /\ heap' = heap
               /\ edited' = edited
               /\ merged' = 0
               /\ error' = "OracleError"
               /\ pc' = "failed"
          ELSE /\ EditEnabled(heap, sanitized, outcome)
               /\ LET o == OracleResponse(heap, sanitized, outcome)
                      m == merge(o.h, original, o.a)
                  IN /\ heap' = m.h
                     /\ edited' = o.a
                     /\ merged' = m.a
                     /\ error' = m.err
                     /\ pc' = IF m.err = "none" THEN "merged" ELSE "failed"
     /\ UNCHANGED <<original, sanitized, rescored, loaded, flow, liveEdits,
                    all_suggestions, session>>

\* step 3, Preview: step 4 generates the preview unless there is one
Preview ==
  /\ flow = "session" /\ pc = "editing"
  /\ IF merged # 0
     THEN pc' = "merged" /\ UNCHANGED <<sessionFrame, session>>
     ELSE GeneratePreview

\* step 4 without a preview, Back to Selection
BackToSelection ==
  /\ flow = "session" /\ pc = "failed"
  /\ pc' = "curating"
  /\ UNCHANGED <<sessionFrame, session>>

\* step 4, Back
BackToEdit ==
  /\ flow = "session" /\ pc = "merged"
  /\ pc' = "editing"
  /\ UNCHANGED <<sessionFrame, session>>

\* step 4, Reset: preview_resume = None and the step runs again
Reset ==
  /\ flow = "session" /\ pc = "merged"
  /\ GeneratePreview

InitWizard ==
  /\ Loaded(LoadRecord("flat", TRUE, FlowExps, TRUE, FlowEdus, FALSE))
  /\ flow = "session"

NextWizard ==
  \/ Sanitize
  \/ Analyze
  \/ TickSuggestion
  \/ SelectAll
  \/ SelectHigh
  \/ ClearSelection
  \/ Continue
  \/ EditText
  \/ BackToStepTwo
  \/ Preview
  \/ BackToSelection
  \/ BackToEdit
  \/ Reset

SpecWizard == InitWizard /\ [][NextWizard]_vars


\* ------------------------------------------------- views used by the claims
O == RecVal(heap, original)
S == RecVal(heap, sanitized)
E == RecVal(heap, edited)
M == RecVal(heap, merged)

ListOf(rec, key) == IF key \in DOMAIN rec THEN rec[key] ELSE <<>>
Overlap(a, b, key) == 1..Min(Len(ListOf(a, key)), Len(ListOf(b, key)))

IdentityKeys == {"personal_info", "experience", "education"}

\* e has the identity-bearing structure of sanitize(r): the same identity
\* sections, and in the overlapping entries a company or institution and
\* a location exactly where the sanitized entry has one
StructurallyCompatible(s, e) ==
  /\ \A k \in IdentityKeys : (k \in DOMAIN e) <=> (k \in DOMAIN s)
  /\ \A i \in Overlap(s, e, "experience") :
       /\ "company" \in DOMAIN e["experience"][i]
       /\ ("location" \in DOMAIN e["experience"][i]) <=> ("location" \in DOMAIN s["experience"][i])
  /\ \A i \in Overlap(s, e, "education") : "institution" \in DOMAIN e["education"][i]

Returned == pc = "merged"

\* the strings of the identity block, whichever its shape
RECURSIVE Leaves(_, _)
Leaves(h, v) == IF v.r = 0 THEN {v.s} ELSE UNION {Leaves(h, h[v.r][k]) : k \in DOMAIN h[v.r]}

IdentityStrings(h, a) ==
  IF Has(h, a, "personal_info") THEN Leaves(h, h[a]["personal_info"]) ELSE {}

NoPlaceholder ==
  /\ REDACTED \notin IdentityStrings(heap, merged)
  /\ \A i \in Overlap(O, M, "experience") :
       /\ M["experience"][i]["company"] # REDACTED
       /\ "location" \in DOMAIN M["experience"][i] => M["experience"][i]["location"] # REDACTED
  /\ \A i \in Overlap(O, M, "education") : M["education"][i]["institution"] # REDACTED

\* C1: no leakage (P3): for every original r and every structurally
\* compatible edit e of sanitize(r), no identity-bearing field of
\* merge(r, e) within the overlapping range equals '[REDACTED]'.
C1_NoLeakage == (Returned /\ StructurallyCompatible(S, E)) => NoPlaceholder

\* C2: the identity block of merge(r, e) is r's identity block exactly
\* (wholesale replacement), for every structurally compatible e.
C2_IdentityRestored ==
  (Returned /\ StructurallyCompatible(S, E)) =>
    /\ ("personal_info" \in DOMAIN M) <=> ("personal_info" \in DOMAIN O)
    /\ "personal_info" \in DOMAIN O => M["personal_info"] = O["personal_info"]

C2_Witness ==
  /\ Returned /\ StructurallyCompatible(S, E)
  /\ "personal_info" \in DOMAIN E
  /\ E["personal_info"]["name"] = REDACTED
  /\ "title" \in DOMAIN O["personal_info"]
  /\ M["personal_info"] = O["personal_info"]

OtherKeys(entry, ks) == (DOMAIN entry) \ ks

\* C3: for every index below the shorter experience length, the merged
\* entry has the original's company; it has the original's location exactly
\* when the original entry has one and otherwise the edited entry's location
\* (present or absent); every other field is the edited entry's.
C3_ExperienceRestored ==
  Returned =>
    \A i \in Overlap(O, E, "experience") :
      LET o == O["experience"][i]
          e == E["experience"][i]
          m == M["experience"][i]
      IN /\ m["company"] = o["company"]
         /\ "location" \in DOMAIN o => ("location" \in DOMAIN m /\ m["location"] = o["location"])
         /\ "location" \notin DOMAIN o =>
              /\ ("location" \in DOMAIN m) <=> ("location" \in DOMAIN e)
              /\ "location" \in DOMAIN e => m["location"] = e["location"]
         /\ OtherKeys(m, {"company", "location"}) = OtherKeys(e, {"company", "location"})
         /\ \A k \in OtherKeys(e, {"company", "location"}) : m[k] = e[k]

C3_Witness ==
  /\ Returned
  /\ Len(ListOf(O, "experience")) = 2 /\ Len(ListOf(E, "experience")) = 2
  /\ "location" \in DOMAIN O["experience"][1]
  /\ "location" \notin DOMAIN O["experience"][2]
  /\ "location" \in DOMAIN E["experience"][1]
  /\ "location" \in DOMAIN E["experience"][2]
  /\ E["experience"][1]["location"] = LOCATION
  /\ E["experience"][2]["location"] = "Remote"
  /\ M["experience"][1]["location"] = "Berlin"
  /\ M["experience"][2]["location"] = "Remote"
  /\ M["experience"][2]["company"] = "Beta LLC"

\* C4: for every index below the shorter education length, the merged
\* entry has the original's institution and the edited entry's other fields.
C4_EducationRestored ==
  Returned =>
    \A i \in Overlap(O, E, "education") :
      LET o == O["education"][i]
          e == E["education"][i]
          m == M["education"][i]
      IN /\ m["institution"] = o["institution"]
         /\ OtherKeys(m, {"institution"}) = OtherKeys(e, {"institution"})
         /\ \A k \in OtherKeys(e, {"institution"}) : m[k] = e[k]

C4_Witness ==
  /\ Returned
  /\ Len(ListOf(O, "education")) >= 1 /\ Len(ListOf(E, "education")) >= 1
  /\ E["education"][1]["institution"] = "University_A"
  /\ E["education"][1]["degree"] = "BSc (Hons)"
  /\ M["education"][1]["institution"] = "MIT"
  /\ M["education"][1]["degree"] = "BSc (Hons)"

TailKept(key) ==
  /\ (key \in DOMAIN M) <=> (key \in DOMAIN E)
  /\ Len(ListOf(M, key)) = Len(ListOf(E, key))
  /\ \A i \in 1..Len(ListOf(E, key)) :
       i > Len(ListOf(O, key)) => M[key][i] = E[key][i]

\* C5: entries beyond the shorter length are left as they are: the merged
\* list has the edited list's length, its entries past the original's length
\* are the edited record's, and the original's extra entries are not added.
C5_TailUntouched == Returned => (TailKept("experience") /\ TailKept("education"))

C5_Witness ==
  /\ Returned
  /\ Len(ListOf(O, "experience")) = 2 /\ Len(ListOf(E, "experience")) = 3
  /\ E["experience"][3]["company"] = "Company_C"
  /\ M["experience"][1]["company"] = "Acme Corp"
  /\ M["experience"][2]["company"] = "Beta LLC"
  /\ M["experience"][3]["company"] = "Company_C"

\* C6: content preserved from the edit (P4): profile, skills, certifications
\* and every experience entry's achievements of merge(r, e) are those of e.
C6_ContentFromEdit ==
  Returned =>
    /\ \A k \in {"profile", "skills", "certifications"} : M[k] = E[k]
    /\ \A i \in 1..Len(ListOf(E, "experience")) :
         M["experience"][i]["achievements"] = E["experience"][i]["achievements"]

C6_Witness ==
  /\ Returned
  /\ E["profile"] # O["profile"] /\ E["skills"] # O["skills"]
  /\ E["certifications"] # O["certifications"]
  /\ Len(ListOf(E, "experience")) >= 1
  /\ E["experience"][1]["achievements"] # O["experience"][1]["achievements"]
  /\ M["profile"] = E["profile"]
  /\ M["experience"][1]["company"] = "Acme Corp"

\* C7: merge never raises on a missing key: whatever keys are absent from
\* the original or the edited record, merge returns a record.
C7_NeverRaises == pc \in {"merged", "failed"} => (error = "none" /\ merged # 0)

\* C8: the result holds '_metadata' only if the original does; a '_metadata'
\* carried only by the edited record is dropped, every other top-level key
\* of the edited record is kept.
C8_MetadataDropped ==
  Returned =>
    /\ "_metadata" \in DOMAIN M => "_metadata" \in DOMAIN O
    /\ (DOMAIN E) \ {"_metadata"} \subseteq DOMAIN M

C8_Witness ==
  /\ Returned
  /\ "_metadata" \in DOMAIN E /\ "_metadata" \notin DOMAIN O
  /\ "_metadata" \notin DOMAIN M
  /\ (DOMAIN E) \ {"_metadata"} \subseteq DOMAIN M

\* the objects two records have in common
Shared(a, b) == Reach(heap, a) \cap Reach(heap, b)

\* C9: across a whole run of either flow the original record keeps the value
\* it was loaded with; sanitize, merge and add_metadata leave the records
\* they are handed as they were; and the merged record has no mutable object
\* in common with the original or with the edited record.
C9_OriginalUntouched ==
  [][ /\ original' = original
      /\ RecVal(heap', original) = loaded
      /\ sanitized # 0 => RecVal(heap', sanitized) = RecVal(heap, sanitized)
      /\ edited # 0 => RecVal(heap', edited) = RecVal(heap, edited)
      /\ merged' # merged /\ merged # 0 => RecVal(heap', merged) = RecVal(heap, merged)
      /\ rescored' # 0 /\ rescored = 0 => RecVal(heap', merged) = RecVal(heap, merged)
      /\ merged' # 0 =>
           /\ Reach(heap', merged') \cap Reach(heap', original) = {}
           /\ Reach(heap', merged') \cap Reach(heap', edited') = {} ]_vars

C9_Witness ==
  /\ pc = "done"
  /\ flow = "wizard"
  /\ liveEdits = MaxLiveEdits
  /\ M["profile"] = "Edited profile"
  /\ O["profile"] = "Builds things"
  /\ M["personal_info"] = O["personal_info"]
  /\ O = loaded
  /\ Shared(merged, original) = {}
  /\ Shared(merged, edited) = {}

\* C10: sanitize leaves the record it is given as it was, and the record it
\* returns has no object in common with it.
C10_SanitizePure ==
  sanitized # 0 =>
    /\ O = loaded
    /\ Shared(sanitized, original) = {}

C10_Witness ==
  /\ pc = "sanitized"
  /\ "experience" \in DOMAIN O
  /\ Len(O["experience"]) >= 1
  /\ "company" \in DOMAIN O["experience"][1]
  /\ O["experience"][1]["company"] = "Acme Corp"
  /\ S["experience"][1]["company"] = "Company_A"
  /\ O = loaded
  /\ Shared(sanitized, original) = {}

\* ------------------------------------------------- claims on sanitize
\* the record the second call of sanitize returned
R == RecVal(heap, rescored)

Restrict(f, ks) == [k \in (DOMAIN f) \cap ks |-> f[k]]
Without(f, ks) == [k \in (DOMAIN f) \ ks |-> f[k]]

RedactedBlock ==
  [name |-> "[REDACTED]",
   contact |-> [email |-> "[REDACTED]", phone |-> "[REDACTED]",
                location |-> "[REDACTED]", linkedin |-> "[REDACTED]"]]

Letters == <<"A", "B", "C", "D", "E", "F">>

C12_Pseudonyms ==
  sanitized # 0 =>
    /\ \A i \in DOMAIN ListOf(S, "experience") :
         /\ S["experience"][i]["company"] = "Company_" \o Letters[i]
         /\ \A j \in DOMAIN ListOf(S, "experience") :
              i # j => S["experience"][i]["company"] # S["experience"][j]["company"]
         /\ ("location" \in DOMAIN S["experience"][i])
              <=> ("location" \in DOMAIN O["experience"][i])
         /\ "location" \in DOMAIN S["experience"][i] =>
              /\ S["experience"][i]["location"] = "[LOCATION]"
              /\ S["experience"][i]["location"] # REDACTED
    /\ \A i \in DOMAIN ListOf(S, "education") :
         /\ S["education"][i]["institution"] = "University_" \o Letters[i]
         /\ \A j \in DOMAIN ListOf(S, "education") :
              i # j => S["education"][i]["institution"] # S["education"][j]["institution"]

C12_Witness ==
  /\ pc = "sanitized"
  /\ Len(ListOf(O, "experience")) = 2
  /\ Len(ListOf(O, "education")) = 2
  /\ "location" \in DOMAIN O["experience"][1]
  /\ "location" \notin DOMAIN O["experience"][2]
  /\ S["experience"][1]["company"] = "Company_A"
  /\ S["experience"][2]["company"] = "Company_B"
  /\ S["experience"][1]["location"] = "[LOCATION]"
  /\ "location" \notin DOMAIN S["experience"][2]
  /\ S["education"][1]["institution"] = "University_A"
  /\ S["education"][2]["institution"] = "University_B"

\* a record without its identity-bearing fields
NonIdentity(rec) ==
  [k \in (DOMAIN rec) \ {"personal_info"} |->
     CASE k = "experience" ->
            [i \in DOMAIN rec[k] |-> Without(rec[k][i], {"company", "location"})]
       [] k = "education" -> [i \in DOMAIN rec[k] |-> Without(rec[k][i], {"institution"})]
       [] OTHER -> rec[k]]

C14_AbsentSkipped ==
  /\ pc # "loaded" => sanitized # 0
  /\ sanitized # 0 =>
       /\ DOMAIN S = DOMAIN O
       /\ "personal_info" \in DOMAIN O => S["personal_info"] = RedactedBlock
       /\ "experience" \in DOMAIN O =>
            \A i \in DOMAIN S["experience"] :
              S["experience"][i]["company"] = "Company_" \o Letters[i]
       /\ "education" \in DOMAIN O =>
            \A i \in DOMAIN S["education"] :
              S["education"][i]["institution"] = "University_" \o Letters[i]

C14_Witness ==
  /\ pc = "sanitized"
  /\ "personal_info" \notin DOMAIN O /\ "personal_info" \notin DOMAIN S
  /\ "education" \notin DOMAIN O /\ "education" \notin DOMAIN S
  /\ "experience" \in DOMAIN O
  /\ Len(O["experience"]) = 1
  /\ S["experience"][1]["company"] = "Company_A"

\* the identity-bearing fields of a record
IdentityView(rec) ==
  [k \in (DOMAIN rec) \cap IdentityKeys |->
     CASE k = "experience" ->
            [i \in DOMAIN rec[k] |-> Restrict(rec[k][i], {"company", "location"})]
       [] k = "education" -> [i \in DOMAIN rec[k] |-> Restrict(rec[k][i], {"institution"})]
       [] OTHER -> rec[k]]

\* C15: idempotent redaction (P1): the identity-bearing fields of
\* sanitize(sanitize(r)) are those of sanitize(r).
C15_Idempotent == pc = "resanitized" => IdentityView(R) = IdentityView(S)

C15_Witness ==
  /\ pc = "resanitized"
  /\ "personal_info" \in DOMAIN O
  /\ Len(ListOf(O, "experience")) = 2
  /\ Len(ListOf(O, "education")) = 1
  /\ "location" \in DOMAIN O["experience"][1]
  /\ R["experience"][1]["location"] = "[LOCATION]"
  /\ R["experience"][2]["company"] = "Company_B"
  /\ R["personal_info"] = S["personal_info"]
  /\ IdentityView(R) = IdentityView(S)
  /\ IdentityView(S) # IdentityView(O)

\* --------------------------------------------------- claims on the ledger
\* the ids of a list of suggestions
IdsOf(sg, list) == [i \in DOMAIN list |-> sg[list[i]]["id"]]

Matches(sg, all, ids) == {a \in DOMAIN sg : InList(a, all) /\ InList(sg[a]["id"], ids)}

\* the suggestions of all_suggestions whose id is in ids, in generation order
InGenerationOrder(sg, all, ids) ==
  LET Test(a) == InList(sg[a]["id"], ids) IN SelectSeq(all, Test)

\* C16: selection order stability (P5): a select call on an empty selected
\* list leaves exactly the suggestions whose id is in the list, in the order
\* of all_suggestions and not in the order of the ids, each flagged selected.
C16_SelectionOrder ==
  (call.op = "select" /\ call.selected = <<>>) =>
    /\ selected_suggestions = InGenerationOrder(call.sugs, call.all, call.ids)
    /\ all_suggestions = call.all
    /\ \A i \in DOMAIN selected_suggestions : sugs[selected_suggestions[i]]["selected"]

C16_Witness ==
  /\ call.op = "select"
  /\ call.selected = <<>>
  /\ call.ids = <<3, 1>>
  /\ IdsOf(sugs, all_suggestions) = <<1, 2, 3>>
  /\ IdsOf(sugs, selected_suggestions) = <<1, 3>>

\* C17: after any sequence of select calls each suggestion is at most once
\* in the selected list, and a select call whose ids are all selected
\* already leaves the selected list unchanged.
C17_NoDuplicates ==
  /\ \A i, j \in DOMAIN selected_suggestions :
       i # j => selected_suggestions[i] # selected_suggestions[j]
  /\ (call.op = "select"
        /\ \A a \in Matches(call.sugs, call.all, call.ids) : InList(a, call.selected))
       => selected_suggestions = call.selected

\* C18: modify(id, new_value) sets value and modified of the suggestions of
\* all_suggestions with that id and changes nothing else: their other
\* fields, the other suggestions, all_suggestions and the selected list.
C18_ModifyFrame ==
  call.op = "modify" =>
    /\ all_suggestions = call.all
    /\ selected_suggestions = call.selected
    /\ DOMAIN sugs = DOMAIN call.sugs
    /\ \A a \in DOMAIN sugs :
         IF InList(a, call.all) /\ call.sugs[a]["id"] = call.id
         THEN /\ sugs[a]["value"] = call.value
              /\ sugs[a]["modified"] = TRUE
              /\ Without(sugs[a], {"value", "modified"})
                   = Without(call.sugs[a], {"value", "modified"})
         ELSE sugs[a] = call.sugs[a]

C18_Witness ==
  /\ call.op = "modify"
  /\ call.id = 2
  /\ IdsOf(sugs, all_suggestions) = <<1, 2, 3>>
  /\ call.sugs[all_suggestions[2]]["value"] = "Kubernetes"
  /\ "modified" \notin DOMAIN call.sugs[all_suggestions[2]]
  /\ sugs[all_suggestions[2]]["value"] = "with HIPAA expertise"
  /\ sugs[all_suggestions[2]]["modified"]
  /\ sugs[all_suggestions[1]] = call.sugs[all_suggestions[1]]
  /\ selected_suggestions # <<>>

\* C19: a select call whose ids match no suggestion and a modify call whose
\* id matches no suggestion leave all_suggestions, the suggestions and the
\* selected list as they were.
C19_UnknownIdNoOp ==
  /\ (call.op = "select" /\ Matches(call.sugs, call.all, call.ids) = {}) =>
       /\ sugs = call.sugs
       /\ all_suggestions = call.all
       /\ selected_suggestions = call.selected
  /\ (call.op = "modify" /\ Matches(call.sugs, call.all, <<call.id>>) = {}) =>
       /\ sugs = call.sugs
       /\ all_suggestions = call.all
       /\ selected_suggestions = call.selected

C19_Witness ==
  /\ call.op = "modify"
  /\ call.id = 9
  /\ all_suggestions # <<>>
  /\ selected_suggestions # <<>>
  /\ 9 \notin {sugs[all_suggestions[i]]["id"] : i \in DOMAIN all_suggestions}
  /\ sugs = call.sugs
  /\ selected_suggestions = call.selected

\* C20: modify-after-select is visible (P6): the selected list holds the
\* suggestions of all_suggestions themselves, so after modify(id, v) every
\* selected suggestion with that id shows v and modified, and a suggestion
\* modified before it is selected shows its modified value when selected.
C20_ModifyVisible ==
  LET shown == get_selected_suggestions(sugs, selected_suggestions)
  IN /\ \A i \in DOMAIN selected_suggestions : InList(selected_suggestions[i], all_suggestions)
     /\ call.op = "modify" =>
          \A i \in DOMAIN shown :
            shown[i]["id"] = call.id =>
              (shown[i]["value"] = call.value /\ shown[i]["modified"] = TRUE)
     /\ call.op = "select" =>
          \A i \in DOMAIN shown :
            LET before == call.sugs[selected_suggestions[i]]
            IN /\ shown[i]["value"] = before["value"]
               /\ ("modified" \in DOMAIN shown[i]) <=> ("modified" \in DOMAIN before)

C20_Witness ==
  /\ call.op = "modify"
  /\ call.id = 1
  /\ call.selected # <<>>
  /\ selected_suggestions = call.selected
  /\ call.sugs[selected_suggestions[1]]["id"] = 1
  /\ call.sugs[selected_suggestions[1]]["value"] = "Kubernetes"
  /\ get_selected_suggestions(sugs, selected_suggestions)[1]["value"] = "with HIPAA expertise"
  /\ get_selected_suggestions(sugs, selected_suggestions)[1]["modified"]

RequiredFields ==
  {"id", "category", "type", "description", "action", "reason", "section", "value",
   "priority", "selected"}
OptionalFields == {"achievement_category", "insert_after"}

\* C21: ingestion stores one suggestion per raw suggestion, in the same
\* order, each with all required fields: the raw value where the raw
\* suggestion has the field, else the default (category 'Other', priority
\* 'medium', id the 1-based position), selected false; achievement_category
\* and insert_after are stored exactly when the raw suggestion has them.
C21_Normalized ==
  call.op = "analyze" =>
    /\ Len(all_suggestions) = Len(call.batch)
    /\ \A i \in DOMAIN call.batch :
         LET raw == call.batch[i]
             stored == sugs[all_suggestions[i]]
         IN /\ DOMAIN stored = RequiredFields \cup ((DOMAIN raw) \cap OptionalFields)
            /\ stored["id"] = IF "id" \in DOMAIN raw THEN raw["id"] ELSE i
            /\ stored["category"] = IF "category" \in DOMAIN raw THEN raw["category"] ELSE "Other"
            /\ stored["priority"] = IF "priority" \in DOMAIN raw THEN raw["priority"] ELSE "medium"
            /\ stored["selected"] = FALSE
            /\ \A k \in (DOMAIN raw) \cap ((RequiredFields \cup OptionalFields) \ {"selected"}) :
                 stored[k] = raw[k]

C21_Witness ==
  /\ call.op = "analyze"
  /\ call.batch = <<RawBare, RawAchievement>>
  /\ sugs[all_suggestions[1]]["id"] = 1
  /\ sugs[all_suggestions[2]]["id"] = 2
  /\ sugs[all_suggestions[1]]["category"] = "Other"
  /\ sugs[all_suggestions[1]]["priority"] = "medium"
  /\ "insert_after" \notin DOMAIN sugs[all_suggestions[1]]
  /\ sugs[all_suggestions[2]]["insert_after"] = "Shipped v1"
  /\ sugs[all_suggestions[2]]["achievement_category"] = "Leadership"

\* C22: no two suggestions of all_suggestions have the same id.
C22_UniqueIds ==
  \A i, j \in DOMAIN all_suggestions :
    i # j => sugs[all_suggestions[i]]["id"] # sugs[all_suggestions[j]]["id"]

\* C23: a select or modify call removes nothing from all_suggestions, leaves
\* a true selected flag true and a true modified flag true.
C23_Monotone ==
  [][ (pc = "curating" /\ pc' = "curating") =>
        /\ all_suggestions' = all_suggestions
        /\ \A a \in DOMAIN sugs :
             /\ a \in DOMAIN sugs'
             /\ sugs[a]["selected"] => sugs'[a]["selected"]
             /\ "modified" \in DOMAIN sugs[a] =>
                  ("modified" \in DOMAIN sugs'[a] /\ sugs'[a]["modified"]) ]_vars

C23_Witness ==
  /\ call.op = "modify"
  /\ call.selected # <<>>
  /\ call.sugs[call.selected[1]]["selected"]
  /\ "modified" \in DOMAIN call.sugs[call.selected[1]]
  /\ call.sugs[call.selected[1]]["id"] # call.id
  /\ sugs[call.selected[1]]["selected"]
  /\ sugs[call.selected[1]]["modified"]
  /\ Len(all_suggestions) = 3

\* the position of a suggestion in a list
PositionIn(list, a) == CHOOSE k \in DOMAIN list : list[k] = a

\* C27: after any sequence of select calls, two different suggestions of
\* the selected list stand in the order they have in all_suggestions.
C27_SelectedInGenerationOrder ==
  \A i, j \in DOMAIN selected_suggestions :
    (i < j /\ selected_suggestions[i] # selected_suggestions[j]) =>
      PositionIn(all_suggestions, selected_suggestions[i])
        < PositionIn(all_suggestions, selected_suggestions[j])

\* the record the Oracle was given last
Sent == RecVal(heap, oracle.resume)

\* a record as sanitize returns it
Anonymized(rec) ==
  /\ "personal_info" \in DOMAIN rec => rec["personal_info"] = RedactedBlock
  /\ \A i \in DOMAIN ListOf(rec, "experience") :
       rec["experience"][i]["company"] = "Company_" \o Letters[i]
  /\ \A i \in DOMAIN ListOf(rec, "education") :
       rec["education"][i]["institution"] = "University_" \o Letters[i]

\* C25: every record given to the Oracle (scoring and suggestion generation,
\* edit application, scoring of the tailored record) is one that sanitize
\* returned: its identity block is redacted and its companies and
\* institutions are the position pseudonyms.
C25_OnlySanitizedSent ==
  oracle.resume # 0 =>
    /\ oracle.resume \in {sanitized, rescored}
    /\ oracle.resume # original /\ oracle.resume # merged
    /\ Anonymized(Sent)

C25_Witness ==
  /\ pc = "done"
  /\ oracle.resume = rescored
  /\ M["personal_info"]["name"] = "Ann Lee"
  /\ M["experience"][1]["company"] = "Acme Corp"
  /\ Sent["personal_info"]["name"] = "[REDACTED]"
  /\ Sent["experience"][1]["company"] = "Company_A"

\* C26: the instructions given to the Oracle hold one entry for every
\* selected suggestion, in the order of the selected list, with its value.
C26_AllEditsSent ==
  (pc = "edited" /\ selected_suggestions # <<>>) =>
    /\ Len(oracle.instructions) = Len(selected_suggestions)
    /\ \A i \in DOMAIN selected_suggestions :
         oracle.instructions[i]["value"] = sugs[selected_suggestions[i]]["value"]

\* C24: add_metadata leaves the record it is given as it was, and returns a
\* record that equals it on every top-level key but '_metadata', whose block
\* holds the source marker, the label, the prior score, the number of edits
\* and the clock's reading.
C24_MetadataPureAdditive ==
  [][(pc = "merged" /\ pc' = "tagged") =>
       /\ RecVal(heap', merged) = M
       /\ Without(RecVal(heap', merged'), {"_metadata"}) = Without(M, {"_metadata"})
       /\ \E label \in Labels, score \in Scores, now \in Clock :
            RecVal(heap', merged')["_metadata"] =
              [source |-> "resume_master.json", tailored_for |-> label,
               created_at |-> now, match_score_before |-> score,
               changes_applied |-> Len(selected_suggestions)]]_vars

C24_Witness ==
  /\ pc = "tagged"
  /\ M["_metadata"]["tailored_for"] = "google-swe"
  /\ M["_metadata"]["changes_applied"] = 1
  /\ M["personal_info"]["name"] = "Ann Lee"
  /\ DOMAIN M # {"_metadata", "personal_info"}

\* every experience entry has a company, every education entry an institution
Keyed(rec) ==
  /\ \A i \in DOMAIN ListOf(rec, "experience") : "company" \in DOMAIN rec["experience"][i]
  /\ \A i \in DOMAIN ListOf(rec, "education") : "institution" \in DOMAIN rec["education"][i]

\* C30: for a record whose experience entries all have a company and whose
\* education entries all have an institution, merging the record with its
\* own unedited sanitized copy gives back the record, equal on every field.
C30_RoundTrip ==
  (pc \in {"merged", "failed"} /\ edited = sanitized /\ Keyed(loaded)) =>
    /\ error = "none"
    /\ pc = "merged"
    /\ M = loaded
    /\ O = loaded

C30_Witness ==
  /\ pc = "merged"
  /\ edited = sanitized
  /\ Keyed(loaded)
  /\ S # O
  /\ M = O
  /\ Len(ListOf(O, "experience")) = 2
  /\ Len(ListOf(O, "education")) = 1
  /\ O["experience"][2]["company"] # S["experience"][2]["company"]
  /\ "location" \in DOMAIN O["experience"][1]
  /\ O["personal_info"]["name"] = "Ann Lee"

\* C28: the selected list is derived from the current batch: after any
\* analyze, select and modify calls on one agent, every element of the
\* selected list is an element of all_suggestions and is flagged selected,
\* and every flagged element of all_suggestions is in the selected list.
C28_SelectedDerived ==
  /\ \A i \in DOMAIN selected_suggestions :
       /\ InList(selected_suggestions[i], all_suggestions)
       /\ sugs[selected_suggestions[i]]["selected"]
  /\ \A i \in DOMAIN all_suggestions :
       sugs[all_suggestions[i]]["selected"] =>
         InList(all_suggestions[i], selected_suggestions)

\* C29: whenever the wizard has generated a preview, the agent's selected
\* list holds each suggestion whose id is in the session's selected_ids
\* once, and no suggestion whose id is not in selected_ids.
C29_PreviewAppliesSelection ==
  (call.op = "preview" /\ merged # 0) =>
    /\ \A a \in Matches(sugs, all_suggestions, call.ids) :
         Cardinality({i \in DOMAIN selected_suggestions : selected_suggestions[i] = a}) = 1
    /\ \A i \in DOMAIN selected_suggestions :
         InList(sugs[selected_suggestions[i]]["id"], call.ids)

====
